---- MODULE Spec2Model ----
(***************************************************************************)
(* Model of the CSU scheduler (src/main.py): the assignment engine         *)
(* _generate_schedule with its three passes, the candidate scorer, and the *)
(* two HTTP handlers that share the process-wide "last uploaded rows".     *)
(*                                                                         *)
(* A row (a Python dict) is a function from column names to values.  A     *)
(* dict whose iteration order matters (staff_by_name, results) is a        *)
(* sequence in insertion order; assigning to a key that is already there   *)
(* replaces the value in place, as Python does.                            *)
(***************************************************************************)
EXTENDS Integers, Sequences, FiniteSets, TLC

\* ------------------------------------------------------------------ bounds
MaxStaff == 3
MaxCourses == 2
MaxNames == 2

\* --------------------------------------------------------------- constants
TIME_SLOTS == <<"9:10AM-11:05AM", "11:20AM-1:15PM", "1:30PM-2:20PM">>

COURSE_COLS ==
  <<"Course", "Section", "Days", "StartTime", "EndTime", "Room",
    "Min # of SPTs Required">>

STAFF_COLS ==
  <<"Name:", "Partner Preference 1:", "Partner Preference 2:",
    "Partner Preference 3:", "1st Choice", "2nd Choice",
    "9:10AM-11:05AM", "11:20AM-1:15PM", "1:30PM-2:20PM", "Veteran?">>

\* len(assigned) < 2 in the base assignment loop
TeamSize == 2
\* len(assigned) < 3 in the fill pass
FillCap == 3
\* sum(veterans) >= 2 for a donor session
DonorVets == 2

Range(f) == {f[x] : x \in DOMAIN f}

SlotSet == Range(TIME_SLOTS)

\* ------------------------------------------------------- string functions
\* str.strip() on the strings of the model: the padded ones are listed, every
\* other string of the model has no surrounding white space.
Strip(s) ==
  CASE s = " Al " -> "Al"
    [] s = " Al" -> "Al"
    [] s = "  " -> ""
    [] s = " 11:20AM" -> "11:20AM"
    [] s = " x " -> "x"
    [] OTHER -> s

\* str.lower() on the strings of the model: the ones with capitals that are
\* ever lowered are listed.
Lower(s) ==
  CASE s = "Math" -> "math"
    [] s = "MATH" -> "math"
    [] s = "Bio" -> "bio"
    [] s = "Y" -> "y"
    [] s = "TRUE" -> "true"
    [] s = "Yes" -> "yes"
    [] OTHER -> s

\* f'{start}-{end}' on the time strings of the model
TimeRange ==
  (<<"9:10AM", "11:05AM">> :> "9:10AM-11:05AM") @@
  (<<"10:15AM", "11:05AM">> :> "10:15AM-11:05AM") @@
  (<<"9:10AM", "9:55AM">> :> "9:10AM-9:55AM") @@
  (<<"11:20AM", "1:15PM">> :> "11:20AM-1:15PM") @@
  (<<"1:30PM", "2:20PM">> :> "1:30PM-2:20PM") @@
  (<<"8:00AM", "9:00AM">> :> "8:00AM-9:00AM") @@
  (<<"", "1:15PM">> :> "-1:15PM") @@
  (<<"", "">> :> "-")

\* dict.get(k, default)
Get(d, k, default) == IF k \in DOMAIN d THEN d[k] ELSE default

\* The check mark glyph (U+2713) of line 78 is written "U+2713".
TruthyTokens ==
  {"1", "y", "yes", "true", "t", "x", "U+2713", "available", "avail"}

_truthy(val) == Lower(Strip(val)) \in TruthyTokens

_normalize_name(x) == Strip(x)

Card(S) == Cardinality(S)

PrefSet(staff) ==
  { _normalize_name(Get(staff, "Partner Preference 1:", "")),
    _normalize_name(Get(staff, "Partner Preference 2:", "")),
    _normalize_name(Get(staff, "Partner Preference 3:", "")) }

\* A score that adds the partner bonus once, however many names overlap.
ScoreFlatPartnerBonus(staff, course_row, already_in_session_names) ==
  LET course_name == Lower(Strip(Get(course_row, "Course", "")))
      first == Lower(Strip(Get(staff, "1st Choice", "")))
      second == Lower(Strip(Get(staff, "2nd Choice", "")))
      overlap == PrefSet(staff) \cap already_in_session_names
  IN  (IF course_name # "" /\ first = course_name THEN 6 ELSE 0)
    + (IF course_name # "" /\ second = course_name THEN 3 ELSE 0)
    + (IF overlap # {} THEN 4 ELSE 0)
    + (IF _truthy(Get(staff, "Veteran?", "")) THEN 2 ELSE 0)

_score_candidate(staff, course_row, already_in_session_names) ==
  LET course_name == Lower(Strip(Get(course_row, "Course", "")))
      first == Lower(Strip(Get(staff, "1st Choice", "")))
      second == Lower(Strip(Get(staff, "2nd Choice", "")))
      overlap == PrefSet(staff) \cap already_in_session_names
  IN  (IF course_name # "" /\ first = course_name THEN 6 ELSE 0)
    + (IF course_name # "" /\ second = course_name THEN 3 ELSE 0)
    + 4 * Card(overlap)
    + (IF _truthy(Get(staff, "Veteran?", "")) THEN 2 ELSE 0)

\* ---------------------------------------------------- staff metadata build
\* The four keys the engine writes into a staff row (lines 114-121).
Annotate(s) ==
  ("_name" :> _normalize_name(Get(s, "Name:", ""))) @@
  ("_avail" :> [slot \in SlotSet |-> _truthy(Get(s, slot, ""))]) @@
  ("_prefs" :> PrefSet(s)) @@
  ("_veteran" :> _truthy(Get(s, "Veteran?", ""))) @@
  s

HasName(s) == _normalize_name(Get(s, "Name:", "")) # ""

\* staff_rows after the loop of lines 110-122: every row with a name carries
\* the derived keys, a row without one is skipped untouched.
AnnotateRows(rows) ==
  [j \in DOMAIN rows |-> IF HasName(rows[j]) THEN Annotate(rows[j]) ELSE rows[j]]

\* staff_by_name[name] = s : a repeated name replaces the value and keeps the
\* place of the first insertion.
PutStaff(byname, s) ==
  IF \E j \in DOMAIN byname : byname[j]["_name"] = s["_name"]
  THEN [j \in DOMAIN byname |->
          IF byname[j]["_name"] = s["_name"] THEN s ELSE byname[j]]
  ELSE Append(byname, s)

RECURSIVE BuildStaffByName(_, _)
BuildStaffByName(rows, byname) ==
  IF rows = << >> THEN byname
  ELSE BuildStaffByName(Tail(rows),
         IF HasName(Head(rows)) THEN PutStaff(byname, Annotate(Head(rows)))
         ELSE byname)

\* ------------------------------------------------------ session building
block_map ==
  ("9:10AM-9:55AM" :> "9:10AM-11:05AM") @@
  ("9:10AM-10:00AM" :> "9:10AM-11:05AM") @@
  ("10:15AM-11:05AM" :> "9:10AM-11:05AM") @@
  ("11:20AM-12:05PM" :> "11:20AM-1:15PM") @@
  ("11:20AM-12:10PM" :> "11:20AM-1:15PM") @@
  ("12:25PM-1:15PM" :> "11:20AM-1:15PM") @@
  ("1:30PM-2:15PM" :> "1:30PM-2:20PM") @@
  ("2:25PM-3:30PM" :> "1:30PM-2:20PM")

\* lines 127-138: the slot a course row resolves to
ResolveSlot(c) ==
  LET raw == TimeRange[<<Strip(Get(c, "StartTime", "")),
                         Strip(Get(c, "EndTime", ""))>>]
  IN  Get(block_map, raw, raw)

\* A builder that keeps every course row, whatever its slot.
BuildSessionsUnfiltered(rows) ==
  [j \in DOMAIN rows |-> [slot |-> ResolveSlot(rows[j]), row |-> rows[j]]]

RECURSIVE BuildSessions(_)
BuildSessions(rows) ==
  IF rows = << >> THEN << >>
  ELSE LET c == Head(rows)
           slot == ResolveSlot(c)
       IN  (IF slot \in SlotSet THEN << [slot |-> slot, row |-> c] >> ELSE << >>)
           \o BuildSessions(Tail(rows))

\* f'{slot}|{Course}|{Section}'
SessionKey(slot, course_row) ==
  <<slot, "|", Get(course_row, "Course", ""), "|", Get(course_row, "Section", "")>>

\* --------------------------------------------------------- results (dict)
\* results[key] = {"meta": course_row, "assigned": []}
NewEntry(key, course_row) == [key |-> key, meta |-> course_row, assigned |-> << >>]

PutResult(res, key, course_row) ==
  IF \E j \in DOMAIN res : res[j].key = key
  THEN [j \in DOMAIN res |->
          IF res[j].key = key THEN NewEntry(key, course_row) ELSE res[j]]
  ELSE Append(res, NewEntry(key, course_row))

IndexOfKey(res, key) == CHOOSE j \in DOMAIN res : res[j].key = key

AppendAssigned(res, j, a) ==
  [res EXCEPT ![j].assigned = Append(@, a)]

NamesOf(assigned) == {assigned[j].name : j \in DOMAIN assigned}

VetCount(assigned) == Card({j \in DOMAIN assigned : assigned[j].veteran})

HasVet(assigned) == \E j \in DOMAIN assigned : assigned[j].veteran

\* list.remove(x): drops the first element equal to x
RemoveFirst(seq, x) ==
  LET j == CHOOSE k \in DOMAIN seq :
             seq[k] = x /\ \A m \in 1..(k - 1) : seq[m] # x
  IN  SubSeq(seq, 1, j - 1) \o SubSeq(seq, j + 1, Len(seq))

\* next(x for x in seq if P(x)): the first element that satisfies P
FirstIndex(seq, P(_)) ==
  CHOOSE k \in DOMAIN seq : P(seq[k]) /\ \A m \in 1..(k - 1) : ~P(seq[m])

Filter(seq, P(_)) == SelectSeq(seq, P)

\* ------------------------------------------------- step 1: base assignment
\* lines 151-154, 171-174
Available(s, slot) == Get(s["_avail"], slot, FALSE)

\* A pool that forgets who is already placed.
CandidatesAnyPlaced(byname, slot, placed) ==
  LET ok(s) == Available(s, slot)
  IN  Filter(byname, ok)

Candidates(byname, slot, placed) ==
  LET ok(s) == Available(s, slot) /\ s["_name"] \notin placed
  IN  Filter(byname, ok)

VetCandidates(byname, slot, placed) ==
  LET ok(s) == s["_veteran"] /\ Available(s, slot) /\ s["_name"] \notin placed
  IN  Filter(byname, ok)

\* lines 158-160: a stable sort by descending score puts first the earliest
\* candidate among those of maximal score.
ChosenLastOfTied(cands, course_row, current_names) ==
  LET sc(k) == _score_candidate(cands[k], course_row, current_names)
      best == CHOOSE k \in DOMAIN cands :
                /\ \A m \in DOMAIN cands : sc(m) <= sc(k)
                /\ \A m \in (k + 1)..Len(cands) : sc(m) < sc(k)
  IN  cands[best]

Chosen(cands, course_row, current_names) ==
  LET sc(k) == _score_candidate(cands[k], course_row, current_names)
      best == CHOOSE k \in DOMAIN cands :
                /\ \A m \in DOMAIN cands : sc(m) <= sc(k)
                /\ \A m \in 1..(k - 1) : sc(m) < sc(k)
  IN  cands[best]

\* A loop that forgets to drop the pick from the pool.
RemoveChosenKept(cands, cname) == cands

\* line 166
RemoveChosen(cands, cname) ==
  LET keep(s) == s["_name"] # cname
  IN  Filter(cands, keep)

AssignedEntry(s) == [name |-> s["_name"], veteran |-> s["_veteran"]]

\* lines 156-166: the list assigned to the session when the loop ends
RECURSIVE BaseLoop(_, _, _)
BaseLoop(assigned, cands, course_row) ==
  IF Len(assigned) < TeamSize /\ cands # << >>
  THEN LET chosen == Chosen(cands, course_row, NamesOf(assigned))
       IN  BaseLoop(Append(assigned, AssignedEntry(chosen)),
                    RemoveChosen(cands, chosen["_name"]), course_row)
  ELSE assigned

\* lines 169-179: the veteran added to a team that has none
WithVeteran(assigned, byname, slot, placed) ==
  IF HasVet(assigned) THEN assigned
  ELSE LET vc == VetCandidates(byname, slot, placed)
       IN  IF vc # << >>
           THEN Append(assigned, [name |-> vc[1]["_name"], veteran |-> TRUE])
           ELSE assigned

\* staff_load[name] += 1 for every entry of a list
Names == {"Al", "Bo", "Cy", "Di"}

NoLoad == [n \in Names |-> 0]

RECURSIVE AddLoad(_, _)
AddLoad(load, assigned) ==
  IF assigned = << >> THEN load
  ELSE AddLoad([load EXCEPT ![Head(assigned).name] = @ + 1], Tail(assigned))

\* ----------------------------------------------------- step 2: fill pass
\* lines 184-187
OpenSessions(res) == {j \in DOMAIN res : Len(res[j].assigned) < FillCap}

\* line 182
Unassigned(byname, placed) ==
  LET free(s) == s["_name"] \notin placed
  IN  Filter(byname, free)

\* ------------------------------------------- step 3: veteran rebalancing
\* line 196
Veterans(byname) ==
  LET vet(s) == s["_veteran"]
  IN  Filter(byname, vet)

\* lines 203-206
UnplacedVeterans(byname, placed) ==
  LET free(s) == s["_name"] \notin placed
  IN  Filter(Veterans(byname), free)

\* A donor search that takes any session with a veteran.
DonorsWithOne(res) == {j \in DOMAIN res : VetCount(res[j].assigned) >= 1}

\* lines 213-216: the sessions that can give a veteran away
Donors(res) == {j \in DOMAIN res : VetCount(res[j].assigned) >= DonorVets}

FirstOf(S) == CHOOSE j \in S : \A m \in S : j <= m

\* A swap that takes the veteran out of the donor and drops it.
MoveVeteranLost(res, donor, k) ==
  LET isVet(a) == a.veteran
      donor_vet == res[donor].assigned[FirstIndex(res[donor].assigned, isVet)]
  IN  [res EXCEPT ![donor].assigned = RemoveFirst(@, donor_vet)]

\* lines 218-220
MoveVeteran(res, donor, k) ==
  LET isVet(a) == a.veteran
      donor_vet == res[donor].assigned[FirstIndex(res[donor].assigned, isVet)]
      removed == [res EXCEPT ![donor].assigned = RemoveFirst(@, donor_vet)]
  IN  [removed EXCEPT ![k].assigned = Append(@, donor_vet)]

\* lines 200-220 for the k-th item of results
RebalanceResults(res, k, byname, placed) ==
  IF HasVet(res[k].assigned) THEN res
  ELSE LET free == UnplacedVeterans(byname, placed)
       IN  IF free # << >>
           THEN AppendAssigned(res, k, [name |-> free[1]["_name"], veteran |-> TRUE])
           ELSE IF Donors(res) # {}
                THEN MoveVeteran(res, FirstOf(Donors(res)), k)
                ELSE res

\* the veteran lines 207-210 place, if any
RebalancePlaced(res, k, byname, placed) ==
  IF ~HasVet(res[k].assigned) /\ UnplacedVeterans(byname, placed) # << >>
  THEN {UnplacedVeterans(byname, placed)[1]["_name"]}
  ELSE {}

\* ------------------------------------------------------------------ inputs
StaffRow(name, vet, a1, a2, c1, c2, p1, p2) ==
  ("Name:" :> name) @@
  ("Partner Preference 1:" :> p1) @@
  ("Partner Preference 2:" :> p2) @@
  ("Partner Preference 3:" :> "") @@
  ("1st Choice" :> c1) @@
  ("2nd Choice" :> c2) @@
  ("9:10AM-11:05AM" :> a1) @@
  ("11:20AM-1:15PM" :> a2) @@
  ("1:30PM-2:20PM" :> "") @@
  ("Veteran?" :> vet)

CourseRow(course, section, start, end, min) ==
  ("Course" :> course) @@
  ("Section" :> section) @@
  ("Days" :> "MWF") @@
  ("StartTime" :> start) @@
  ("EndTime" :> end) @@
  ("Room" :> "R1") @@
  ("Min # of SPTs Required" :> min)

StaffPool ==
  { StaffRow("Al", "yes", " x ", "", "Math", "", "Bo", ""),
    StaffRow("Bo", "", "Y", "Yes", "", "math", " Al", "Cy"),
    StaffRow("Cy", "TRUE", "yes", "", "MATH", "", "", ""),
    StaffRow(" Al ", "no", "", "available", "", "Bio", "", ""),
    StaffRow("  ", "yes", "yes", "yes", "Math", "", "", "") }

CoursePool ==
  { CourseRow("Math", "1", "9:10AM", "11:05AM", "2"),
    CourseRow("MATH", "2", "9:10AM", "9:55AM", "1"),
    CourseRow("Bio", "1", " 11:20AM", "1:15PM", "two"),
    CourseRow("Bio", "2", "8:00AM", "9:00AM", "3") }

SeqsUpTo(S, n) == UNION {[1..k -> S] : k \in 0..n}

StaffLists == SeqsUpTo(StaffPool, MaxStaff)

CourseLists == SeqsUpTo(CoursePool, MaxCourses)

\* ------------------------------------------------------------------- state
VARIABLES
  LAST_COURSE_ROWS,  \* the course rows of the last successful upload
  LAST_STAFF_ROWS,   \* the staff rows of the last successful upload
  pc,                \* where the generate-schedule request stands
  course_rows,       \* the engine's arguments
  staff_rows,
  staff_by_name,
  sessions,
  results,
  placed_overall,
  staff_load,
  unassigned,
  idx,               \* position of the loop of the current pass
  choices,           \* the keys random.choice has drawn in this run
  prev,              \* what the previous run on the same rows returned
  status,            \* the answer of the last generate-schedule request
  upload_status,     \* the answer of the last upload-rosters request
  scoring            \* one call of _score_candidate: arguments and result

vars ==
  <<LAST_COURSE_ROWS, LAST_STAFF_ROWS, pc, course_rows, staff_rows,
    staff_by_name, sessions, results, placed_overall, staff_load, unassigned,
    idx, choices, prev, status, upload_status, scoring>>

cache == <<LAST_COURSE_ROWS, LAST_STAFF_ROWS>>

api == <<status, upload_status>>

\* no call of _score_candidate is under observation
NoScoring == [called |-> FALSE]

NoPrev ==
  [valid |-> FALSE, results |-> << >>, staff_load |-> NoLoad, choices |-> << >>]

\* ------------------------------------------------------------------ engine
\* A placed set that outlives the call (module-level state).
StalePlaced == placed_overall

\* line 143
FreshPlaced == {}

\* lines 106-143 on the rows the call was given
BeginWith(crows, srows) ==
  /\ course_rows' = crows
  /\ staff_rows' = AnnotateRows(srows)
  /\ staff_by_name' = BuildStaffByName(srows, << >>)
  /\ sessions' = BuildSessions(crows)
  /\ results' = << >>
  /\ placed_overall' = FreshPlaced
  /\ staff_load' = NoLoad
  /\ unassigned' = << >>
  /\ choices' = << >>
  /\ idx' = 1
  /\ pc' = "step1"

Begin ==
  /\ pc = "called"
  /\ BeginWith(course_rows, staff_rows)
  /\ UNCHANGED <<scoring, cache, prev, api>>

\* lines 146-179: one session of the base assignment
Step1 ==
  /\ pc = "step1"
  /\ idx <= Len(sessions)
  /\ LET slot == sessions[idx].slot
         course_row == sessions[idx].row
         key == SessionKey(slot, course_row)
         fresh == PutResult(results, key, course_row)
         j == IndexOfKey(fresh, key)
         team == BaseLoop(<< >>, Candidates(staff_by_name, slot, placed_overall),
                          course_row)
         full == WithVeteran(team, staff_by_name, slot,
                             placed_overall \cup NamesOf(team))
     IN  /\ results' = [fresh EXCEPT ![j].assigned = full]
         /\ placed_overall' = placed_overall \cup NamesOf(full)
         /\ staff_load' = AddLoad(staff_load, full)
  /\ idx' = idx + 1
  /\ UNCHANGED <<scoring, cache, pc, course_rows, staff_rows, staff_by_name, sessions,
                 unassigned, choices, prev, api>>

\* line 182
Step1End ==
  /\ pc = "step1"
  /\ idx > Len(sessions)
  /\ unassigned' = Unassigned(staff_by_name, placed_overall)
  /\ pc' = "step2"
  /\ idx' = 1
  /\ UNCHANGED <<scoring, cache, course_rows, staff_rows, staff_by_name, sessions,
                 results, placed_overall, staff_load, choices, prev, api>>

\* lines 183-193: one unassigned staff member goes to a session random.choice
\* draws among the open ones
Step2 ==
  /\ pc = "step2"
  /\ idx <= Len(unassigned)
  /\ \E j \in OpenSessions(results) :
       /\ results' = AppendAssigned(results, j, AssignedEntry(unassigned[idx]))
       /\ choices' = Append(choices, results[j].key)
  /\ placed_overall' = placed_overall \cup {unassigned[idx]["_name"]}
  /\ staff_load' = AddLoad(staff_load, <<AssignedEntry(unassigned[idx])>>)
  /\ idx' = idx + 1
  /\ UNCHANGED <<scoring, cache, pc, course_rows, staff_rows, staff_by_name, sessions,
                 unassigned, prev, api>>

\* the fill loop ends: the list is exhausted or no session is open (line 189)
Step2End ==
  /\ pc = "step2"
  /\ idx > Len(unassigned) \/ OpenSessions(results) = {}
  /\ pc' = "step3"
  /\ idx' = 1
  /\ UNCHANGED <<scoring, cache, course_rows, staff_rows, staff_by_name, sessions,
                 results, placed_overall, staff_load, unassigned, choices,
                 prev, api>>

\* lines 199-220: one item of results
Step3 ==
  /\ pc = "step3"
  /\ idx <= Len(results)
  /\ results' = RebalanceResults(results, idx, staff_by_name, placed_overall)
  /\ LET new == RebalancePlaced(results, idx, staff_by_name, placed_overall)
     IN  /\ placed_overall' = placed_overall \cup new
         /\ staff_load' = [n \in Names |->
                             staff_load[n] + (IF n \in new THEN 1 ELSE 0)]
  /\ idx' = idx + 1
  /\ UNCHANGED <<scoring, cache, pc, course_rows, staff_rows, staff_by_name, sessions,
                 unassigned, choices, prev, api>>

\* line 222
Return ==
  /\ pc = "step3"
  /\ idx > Len(results)
  /\ pc' = "done"
  /\ status' = 200
  /\ UNCHANGED <<scoring, cache, course_rows, staff_rows, staff_by_name, sessions,
                 results, placed_overall, staff_load, unassigned, idx, choices,
                 prev, upload_status>>

\* ------------------------------------------------- the engine on its own
Init ==
  /\ LAST_COURSE_ROWS = << >>
  /\ LAST_STAFF_ROWS = << >>
  /\ pc = "called"
  /\ course_rows \in CourseLists
  /\ staff_rows \in StaffLists
  /\ staff_by_name = << >>
  /\ sessions = << >>
  /\ results = << >>
  /\ placed_overall = {}
  /\ staff_load = NoLoad
  /\ unassigned = << >>
  /\ idx = 1
  /\ choices = << >>
  /\ prev = NoPrev
  /\ status = 0
  /\ upload_status = 0
  /\ scoring = NoScoring

Next ==
  \/ Begin
  \/ Step1
  \/ Step1End
  \/ Step2
  \/ Step2End
  \/ Step3
  \/ Return

Spec == Init /\ [][Next]_vars

\* ------------------------------------------ the engine called twice
\* The caller keeps what the first call returned and calls again with the
\* same two lists.
Rerun ==
  /\ pc = "done"
  /\ ~prev.valid
  /\ prev' = [valid |-> TRUE, results |-> results, staff_load |-> staff_load,
              choices |-> choices]
  /\ pc' = "called"
  /\ UNCHANGED <<scoring, cache, course_rows, staff_rows, staff_by_name, sessions,
                 results, placed_overall, staff_load, unassigned, idx, choices,
                 api>>

TwiceStaffPool ==
  { StaffRow("Al", "yes", " x ", "", "Math", "", "Bo", ""),
    StaffRow("Bo", "", "Y", "Yes", "", "math", " Al", "Cy"),
    StaffRow("Di", "x", "", "no", "", "", "", "") }

TwiceCoursePool ==
  { CourseRow("Math", "1", "9:10AM", "11:05AM", "2"),
    CourseRow("MATH", "2", "9:10AM", "9:55AM", "1"),
    CourseRow("Bio", "1", " 11:20AM", "1:15PM", "two") }

InitTwice ==
  /\ LAST_COURSE_ROWS = << >>
  /\ LAST_STAFF_ROWS = << >>
  /\ pc = "called"
  /\ course_rows \in SeqsUpTo(TwiceCoursePool, MaxCourses)
  /\ staff_rows \in SeqsUpTo(TwiceStaffPool, MaxStaff)
  /\ staff_by_name = << >>
  /\ sessions = << >>
  /\ results = << >>
  /\ placed_overall = {}
  /\ staff_load = NoLoad
  /\ unassigned = << >>
  /\ idx = 1
  /\ choices = << >>
  /\ prev = NoPrev
  /\ status = 0
  /\ upload_status = 0
  /\ scoring = NoScoring

NextTwice ==
  \/ Begin
  \/ Step1
  \/ Step1End
  \/ Step2
  \/ Step2End
  \/ Step3
  \/ Return
  \/ Rerun

SpecTwice == InitTwice /\ [][NextTwice]_vars

\* ------------------------------------------------------- upload rosters
\* re.sub(r'[^a-z0-9]+', '', s.strip().lower()) on the column names of the
\* model
_normalize_header ==
  ("Course" :> "course") @@
  ("course" :> "course") @@
  ("Section" :> "section") @@
  ("SECTION " :> "section") @@
  ("Days" :> "days") @@
  ("StartTime" :> "starttime") @@
  ("Start Time" :> "starttime") @@
  ("EndTime" :> "endtime") @@
  ("Room" :> "room") @@
  ("Min # of SPTs Required" :> "minofsptsrequired") @@
  ("Name:" :> "name") @@
  ("name" :> "name") @@
  ("Partner Preference 1:" :> "partnerpreference1") @@
  ("Partner Preference 2:" :> "partnerpreference2") @@
  ("Partner Preference 3:" :> "partnerpreference3") @@
  ("1st Choice" :> "1stchoice") @@
  ("2nd Choice" :> "2ndchoice") @@
  ("9:10AM-11:05AM" :> "910am1105am") @@
  ("11:20AM-1:15PM" :> "1120am115pm") @@
  ("1:30PM-2:20PM" :> "130pm220pm") @@
  ("Veteran?" :> "veteran") @@
  ("Notes" :> "notes")

\* An uploaded file: its header line and its data lines, each with one cell
\* per column.
RowOfLine(header, line) ==
  [h \in Range(header) |-> line[CHOOSE k \in DOMAIN header : header[k] = h]]

\* lines 67-72: one dict per data line, the lines with no value dropped
_parse_csv_upload(file) ==
  LET row(k) == RowOfLine(file.header, file.lines[k])
      any(r) == \E h \in DOMAIN r : r[h] # ""
      keep(k) == any(row(k))
      kept == {k \in DOMAIN file.lines : keep(k)}
      RECURSIVE build(_)
      build(k) ==
        IF k > Len(file.lines) THEN << >>
        ELSE (IF k \in kept THEN <<row(k)>> ELSE << >>) \o build(k + 1)
  IN  build(1)

\* A header check that is left out.
NoMissingColumns(rows, required) == << >>

\* lines 234-238: the required columns the first row does not carry
MissingColumns(rows, required) ==
  LET got == {_normalize_header[k] : k \in DOMAIN rows[1]}
      lacks(c) == _normalize_header[c] \notin got
  IN  Filter(required, lacks)

\* lines 228-245
UploadRosters(course_roster, staff_roster) ==
  LET crows == _parse_csv_upload(course_roster)
      srows == _parse_csv_upload(staff_roster)
  IN  /\ IF crows = << >> \/ srows = << >>
         THEN /\ upload_status' = 400
              /\ UNCHANGED cache
         ELSE IF MissingColumns(crows, COURSE_COLS) # << >>
                 \/ MissingColumns(srows, STAFF_COLS) # << >>
              THEN /\ upload_status' = 400
                   /\ UNCHANGED cache
              ELSE /\ LAST_COURSE_ROWS' = crows
                   /\ LAST_STAFF_ROWS' = srows
                   /\ upload_status' = 200
      /\ UNCHANGED <<scoring, pc, course_rows, staff_rows, staff_by_name, sessions,
                     results, placed_overall, staff_load, unassigned, idx,
                     choices, prev, status>>

\* ------------------------------------------------------ generate schedule
\* An optional list of rows: None, or a list.
None == [none |-> TRUE, rows |-> << >>]

Some(rows) == [none |-> FALSE, rows |-> rows]

Truthy(opt) == ~opt.none /\ opt.rows # << >>

\* A fallback that is looked at first.
OrElseFlipped(opt, fallback) ==
  IF fallback # << >> THEN fallback ELSE opt.rows

\* lines 257-258: req.rows or LAST_ROWS
OrElse(opt, fallback) == IF Truthy(opt) THEN opt.rows ELSE fallback

\* line 256: req or ScheduleRequest()
RequestOf(body) ==
  IF body.present THEN body
  ELSE [present |-> TRUE, course_rows |-> None, staff_rows |-> None]

\* lines 255-261 and the call's first lines 106-143; the staff rows the engine
\* annotates are the cached list itself when the request gave none.
ApiGenerateSchedule(body) ==
  /\ pc \in {"idle", "done", "rejected"}
  /\ LET req == RequestOf(body)
         crows == OrElse(req.course_rows, LAST_COURSE_ROWS)
         srows == OrElse(req.staff_rows, LAST_STAFF_ROWS)
     IN  IF crows = << >> \/ srows = << >>
         THEN /\ status' = 400
              /\ pc' = "rejected"
              /\ UNCHANGED <<cache, course_rows, staff_rows, staff_by_name,
                             sessions, results, placed_overall, staff_load,
                             unassigned, idx, choices>>
         ELSE /\ BeginWith(crows, srows)
              /\ status' = 0
              /\ LAST_STAFF_ROWS' = IF Truthy(req.staff_rows)
                                    THEN LAST_STAFF_ROWS
                                    ELSE AnnotateRows(LAST_STAFF_ROWS)
              /\ UNCHANGED LAST_COURSE_ROWS
  /\ UNCHANGED <<scoring, prev, upload_status>>

CourseFiles ==
  { [header |-> COURSE_COLS,
     lines |-> << <<"Math", "1", "MWF", "9:10AM", "11:05AM", "R1", "2">>,
                  <<"", "", "", "", "", "", "">> >>],
    [header |-> <<"course", "SECTION ", "Days", "Start Time", "EndTime",
                  "Room", "Min # of SPTs Required", "Notes">>,
     lines |-> << <<"Bio", "1", "MWF", " 11:20AM", "1:15PM", "R1", "two", "">> >>],
    [header |-> <<"Course", "Section", "Days", "StartTime", "EndTime",
                  "Min # of SPTs Required">>,
     lines |-> << <<"Math", "1", "MWF", "9:10AM", "11:05AM", "2">> >>],
    [header |-> COURSE_COLS,
     lines |-> << <<"", "", "", "", "", "", "">> >>] }

StaffFiles ==
  { [header |-> STAFF_COLS,
     lines |-> << <<"Al", "Bo", "", "", "Math", "", " x ", "", "", "yes">>,
                  <<"Di", "", "", "", "", "", "", "no", "", "x">> >>],
    [header |-> STAFF_COLS,
     lines |-> << <<"Bo", " Al", "Cy", "", "", "math", "Y", "Yes", "", "">> >>],
    [header |-> <<"Name:", "Partner Preference 1:", "Partner Preference 2:",
                  "Partner Preference 3:", "1st Choice", "2nd Choice",
                  "9:10AM-11:05AM", "11:20AM-1:15PM", "1:30PM-2:20PM">>,
     lines |-> << <<"Cy", "", "", "", "Bio", "", "yes", "", "">> >>],
    [header |-> STAFF_COLS, lines |-> << >>] }

CourseOverrides ==
  { None, Some(<< >>),
    Some(<< CourseRow("MATH", "2", "9:10AM", "9:55AM", "1") >>) }

StaffOverrides ==
  { None, Some(<< >>),
    Some(<< StaffRow("Cy", "TRUE", "yes", "", "Bio", "", "", "") >>) }

Bodies ==
  [present : {TRUE}, course_rows : CourseOverrides, staff_rows : StaffOverrides]
  \cup {[present |-> FALSE, course_rows |-> None, staff_rows |-> None]}

InitApi ==
  /\ LAST_COURSE_ROWS = << >>
  /\ LAST_STAFF_ROWS = << >>
  /\ pc = "idle"
  /\ course_rows = << >>
  /\ staff_rows = << >>
  /\ staff_by_name = << >>
  /\ sessions = << >>
  /\ results = << >>
  /\ placed_overall = {}
  /\ staff_load = NoLoad
  /\ unassigned = << >>
  /\ idx = 1
  /\ choices = << >>
  /\ prev = NoPrev
  /\ status = 0
  /\ upload_status = 0
  /\ scoring = NoScoring

Upload == \E cf \in CourseFiles, sf \in StaffFiles : UploadRosters(cf, sf)

Generate == \E body \in Bodies : ApiGenerateSchedule(body)

NextApi ==
  \/ Upload
  \/ Generate
  \/ Step1
  \/ Step1End
  \/ Step2
  \/ Step2End
  \/ Step3
  \/ Return

SpecApi == InitApi /\ [][NextApi]_vars

\* ------------------------------------------- the candidate scorer alone
ScoreStaff(vet, c1, c2, p1, p2, p3) ==
  ("Veteran?" :> vet) @@ ("1st Choice" :> c1) @@ ("2nd Choice" :> c2) @@
  ("Partner Preference 1:" :> p1) @@ ("Partner Preference 2:" :> p2) @@
  ("Partner Preference 3:" :> p3)

ScoreStaffPool ==
  { ScoreStaff(vet, c1, c2, p1, p2, p3) :
      vet \in {"TRUE", "no", ""}, c1 \in {"Math", "Bio", ""},
      c2 \in {"MATH", "Bio", ""}, p1 \in {"Al", " Al ", ""},
      p2 \in {"Bo", " Al", ""}, p3 \in {"Cy", "Al", "  "} }

ScoreCoursePool == { ("Course" :> c) : c \in {"MATH", "Bio", ""} }

\* the sets of names a session can hold when a candidate is scored
NameSets == {S \in SUBSET {"Al", "Bo", "Cy"} : Card(S) <= MaxNames}

InitScore ==
  /\ LAST_COURSE_ROWS = << >>
  /\ LAST_STAFF_ROWS = << >>
  /\ pc = "idle"
  /\ course_rows = << >>
  /\ staff_rows = << >>
  /\ staff_by_name = << >>
  /\ sessions = << >>
  /\ results = << >>
  /\ placed_overall = {}
  /\ staff_load = NoLoad
  /\ unassigned = << >>
  /\ idx = 1
  /\ choices = << >>
  /\ prev = NoPrev
  /\ status = 0
  /\ upload_status = 0
  /\ scoring \in [called : {FALSE}, staff : ScoreStaffPool,
                  course_row : ScoreCoursePool,
                  already_in_session_names : NameSets, score : {0}]

\* lines 83-100: one call, from `score = 0` to `return score`
ScoreCandidate ==
  /\ scoring.called = FALSE
  /\ "staff" \in DOMAIN scoring
  /\ scoring' = [scoring EXCEPT
                   !.called = TRUE,
                   !.score = _score_candidate(scoring.staff, scoring.course_row,
                                              scoring.already_in_session_names)]
  /\ UNCHANGED <<cache, pc, course_rows, staff_rows, staff_by_name, sessions,
                 results, placed_overall, staff_load, unassigned, idx, choices,
                 prev, api>>

NextScore == ScoreCandidate

SpecScore == InitScore /\ [][NextScore]_vars

\* ======================================================= properties
Done == pc = "done"

Max(a, b) == IF a >= b THEN a ELSE b

RECURSIVE SumLen(_)
SumLen(res) ==
  IF res = << >> THEN 0 ELSE Len(Head(res).assigned) + SumLen(Tail(res))

RECURSIVE SumLoad(_, _)
SumLoad(load, S) ==
  IF S = {} THEN 0
  ELSE LET n == CHOOSE x \in S : TRUE
       IN  load[n] + SumLoad(load, S \ {n})

EntrySlot(e) == e.key[1]

\* the input rows that carry a name, and the slots they mark available
InputNamed(n) ==
  {k \in DOMAIN staff_rows : _normalize_name(Get(staff_rows[k], "Name:", "")) = n}

MarkedAvailable(n, slot) ==
  \E k \in InputNamed(n) : _truthy(Get(staff_rows[k], slot, ""))

SomeoneAvailable(slot) ==
  \E k \in DOMAIN staff_rows :
    HasName(staff_rows[k]) /\ _truthy(Get(staff_rows[k], slot, ""))

\* "Min # of SPTs Required" as an integer: 1 when it does not parse, never
\* below 1
requiredCount(course_row) ==
  LET raw == Strip(Get(course_row, "Min # of SPTs Required", ""))
      parsed == CASE raw = "1" -> 1
                  [] raw = "2" -> 2
                  [] raw = "3" -> 3
                  [] OTHER -> 1
  IN  Max(1, parsed)

\* C1: in the output every staff member of a session's assigned list has the
\* session's slot marked available in their staff row.
C1_AssignedAreAvailable ==
  Done =>
    \A j \in DOMAIN results :
      \A a \in DOMAIN results[j].assigned :
        MarkedAvailable(results[j].assigned[a].name, EntrySlot(results[j]))

\* C2: in the output no session holds more staff than max(1, its
\* "Min # of SPTs Required").
C2_WithinRequirement ==
  Done =>
    \A j \in DOMAIN results :
      Len(results[j].assigned) <= Max(1, requiredCount(results[j].meta))

\* C3: in every state of a run no name appears twice in the assigned list of
\* one session.
C3_NoNameTwiceInSession ==
  \A j \in DOMAIN results :
    \A a, b \in DOMAIN results[j].assigned :
      results[j].assigned[a].name = results[j].assigned[b].name => a = b

RepeatsName ==
  \E k, m \in DOMAIN staff_rows :
    /\ k # m
    /\ HasName(staff_rows[k])
    /\ _normalize_name(staff_rows[k]["Name:"]) = _normalize_name(staff_rows[m]["Name:"])

RepeatsKey ==
  \E k, m \in DOMAIN sessions :
    /\ k # m
    /\ SessionKey(sessions[k].slot, sessions[k].row)
         = SessionKey(sessions[m].slot, sessions[m].row)

\* staff rows repeat a name and a session of the output holds a full team
C3_Witness ==
  /\ Done
  /\ RepeatsName
  /\ \E j \in DOMAIN results : Len(results[j].assigned) >= TeamSize

\* C4: in the output the staff_load values add up to the number of entries of
\* all assigned lists.
C4_LoadSumEqualsPlacements ==
  Done => SumLoad(staff_load, Names) = SumLen(results)

\* C6: a session for whose slot no staff member is available has an empty
\* assigned list in the output.
C6_NobodyAvailableStaysEmpty ==
  Done =>
    \A j \in DOMAIN results :
      ~SomeoneAvailable(EntrySlot(results[j])) => results[j].assigned = << >>

Scheduled(c) == ResolveSlot(c) \in SlotSet

ExpectedKeys ==
  {SessionKey(ResolveSlot(course_rows[k]), course_rows[k]) :
     k \in {m \in DOMAIN course_rows : Scheduled(course_rows[m])}}

\* C7: the keys of the assignment map are those of the course rows that
\* resolve to a canonical slot, once each; a row that resolves to none is the
\* meta of no session at any time.
C7_KeysAreScheduledRows ==
  /\ \A j \in DOMAIN results :
       /\ Scheduled(results[j].meta)
       /\ results[j].key = SessionKey(ResolveSlot(results[j].meta), results[j].meta)
       /\ \A k \in DOMAIN results : results[k].key = results[j].key => k = j
  /\ pc \in {"step2", "step3", "done"} =>
       {results[j].key : j \in DOMAIN results} = ExpectedKeys

\* the input has a row that is dropped and a row whose range is remapped,
\* and the run is over
C7_Witness ==
  /\ Done
  /\ \E k \in DOMAIN course_rows : ~Scheduled(course_rows[k])
  /\ \E k \in DOMAIN course_rows :
       LET raw == TimeRange[<<Strip(course_rows[k]["StartTime"]),
                              Strip(course_rows[k]["EndTime"])>>]
       IN  raw \in DOMAIN block_map
  /\ results # << >>

\* C5 as stated: a second run on the same rows returns the assignment map and
\* the staff_load of the first.
C5_SameOutputTwice ==
  (Done /\ prev.valid) =>
    (results = prev.results /\ staff_load = prev.staff_load)

\* C5 as amended: a second run on the same rows in which random.choice draws
\* the same sessions as in the first returns the same assignment map and the
\* same staff_load.
C5_SameOutputForSameDraws ==
  (Done /\ prev.valid /\ choices = prev.choices) =>
    (results = prev.results /\ staff_load = prev.staff_load)

\* both runs are over on an input with two sessions, the fill pass drew at
\* least once in each, and the draws agree
C5_Witness ==
  /\ Done
  /\ prev.valid
  /\ choices = prev.choices
  /\ choices # << >>
  /\ Len(results) >= 2

\* C8: a generate-schedule request leaves the last-uploaded rows as they
\* were: every cached record has after the call the keys and values it had
\* before it.
C8_GenerateLeavesCache ==
  [][Generate => (LAST_COURSE_ROWS' = LAST_COURSE_ROWS
                  /\ LAST_STAFF_ROWS' = LAST_STAFF_ROWS)]_vars

\* the rows a request is to be served from: its own when it gives any, else
\* the cached ones
RowsFor(opt, cached) == IF opt.none \/ opt.rows = << >> THEN cached ELSE opt.rows

\* C9: a generate-schedule request runs the engine on its explicit rows when
\* it gives any and on the last uploaded rows otherwise, and answers 400,
\* the engine not run, exactly when course rows or staff rows come from
\* neither.
C9_OverrideElseCacheElse400 ==
  [][\A body \in Bodies :
       ApiGenerateSchedule(body) =>
         LET c == RowsFor(body.course_rows, LAST_COURSE_ROWS)
             s == RowsFor(body.staff_rows, LAST_STAFF_ROWS)
         IN  IF c = << >> \/ s = << >>
             THEN /\ status' = 400
                  /\ pc' = "rejected"
                  /\ UNCHANGED <<course_rows, staff_rows, sessions, results,
                                 staff_load>>
             ELSE /\ status' # 400
                  /\ pc' = "step1"
                  /\ course_rows' = c
                  /\ sessions' = BuildSessions(c)
                  /\ staff_by_name' = BuildStaffByName(s, << >>)]_vars

\* a run is over that took its course rows from the request and its staff
\* rows from the last upload
C9_Witness ==
  /\ Done
  /\ status = 200
  /\ LAST_COURSE_ROWS # << >>
  /\ course_rows # LAST_COURSE_ROWS
  /\ staff_rows = LAST_STAFF_ROWS

\* an upload that passes every validation: both files have rows and every
\* required column is among the normalized headers of the first row
HasColumns(rows, required) ==
  \A c \in Range(required) :
    \E h \in DOMAIN rows[1] : _normalize_header[h] = _normalize_header[c]

ValidUpload(cf, sf) ==
  LET c == _parse_csv_upload(cf)
      s == _parse_csv_upload(sf)
  IN  /\ c # << >>
      /\ s # << >>
      /\ HasColumns(c, COURSE_COLS)
      /\ HasColumns(s, STAFF_COLS)

DerivedKeys == {"_name", "_avail", "_prefs", "_veteran"}

Uploaded(rows) ==
  [j \in DOMAIN rows |-> [k \in DOMAIN rows[j] \ DerivedKeys |-> rows[j][k]]]

\* C10: a rejected upload leaves the cache as it was, an upload that passes
\* every validation puts both parsed lists in it, and the uploaded columns
\* of the cache change at no other step.
C10_OnlyValidUploadReplacesCache ==
  [][/\ \A cf \in CourseFiles, sf \in StaffFiles :
          UploadRosters(cf, sf) =>
            IF ValidUpload(cf, sf)
            THEN /\ LAST_COURSE_ROWS' = _parse_csv_upload(cf)
                 /\ LAST_STAFF_ROWS' = _parse_csv_upload(sf)
                 /\ upload_status' = 200
            ELSE /\ LAST_COURSE_ROWS' = LAST_COURSE_ROWS
                 /\ LAST_STAFF_ROWS' = LAST_STAFF_ROWS
                 /\ upload_status' = 400
     /\ (Uploaded(LAST_COURSE_ROWS') # Uploaded(LAST_COURSE_ROWS)
         \/ Uploaded(LAST_STAFF_ROWS') # Uploaded(LAST_STAFF_ROWS)) =>
          \E cf \in CourseFiles, sf \in StaffFiles :
            UploadRosters(cf, sf) /\ ValidUpload(cf, sf)]_vars

\* an upload has just been rejected while the cache holds an earlier one
C10_Witness ==
  /\ upload_status = 400
  /\ LAST_COURSE_ROWS # << >>
  /\ LAST_STAFF_ROWS # << >>

\* the places of the assignment map that hold a name
PlacesOf(n) ==
  {<<j, a>> \in (DOMAIN results) \X (1..(MaxStaff + 1)) :
     a \in DOMAIN results[j].assigned /\ results[j].assigned[a].name = n}

\* C11: while no two scheduled course rows share a session key, every name is
\* in the assigned list of at most one session of the whole map (so in no two
\* sessions of one slot), and in the output its staff_load is 1 when it is
\* placed and absent otherwise.
C11_GlobalExclusivity ==
  ~RepeatsKey =>
    /\ \A n \in Names : Card(PlacesOf(n)) <= 1
    /\ Done => \A n \in Names : staff_load[n] = Card(PlacesOf(n))

\* the output has two staffed sessions of one slot, and the fill pass has
\* placed someone
C11_Witness ==
  /\ Done
  /\ ~RepeatsKey
  /\ choices # << >>
  /\ \E j, k \in DOMAIN results :
       /\ j # k
       /\ EntrySlot(results[j]) = EntrySlot(results[k])
       /\ results[j].assigned # << >>
       /\ results[k].assigned # << >>

\* C12: no step of the rebalancing pass leaves a session that held a veteran
\* without one; so a session with a veteran when the pass starts has one when
\* it ends.
C12_DonorKeepsAVeteran ==
  [][pc = "step3" =>
       \A j \in DOMAIN results :
         HasVet(results[j].assigned) =>
           (j \in DOMAIN results' /\ HasVet(results'[j].assigned))]_vars

RowOfName(n) == staff_by_name[CHOOSE k \in DOMAIN staff_by_name :
                                staff_by_name[k]["_name"] = n]

\* a veteran that step 1 placed (it is not among the unassigned) sits last in
\* a session whose slot it is not available for: a donor swap has moved it
\* there; and another session still holds a veteran
C12_Witness ==
  /\ pc \in {"step3", "done"}
  /\ ~RepeatsKey
  /\ \E j \in DOMAIN results :
       /\ results[j].assigned # << >>
       /\ LET a == results[j].assigned[Len(results[j].assigned)]
          IN  /\ a.veteran
              /\ \A u \in DOMAIN unassigned : unassigned[u]["_name"] # a.name
              /\ ~Available(RowOfName(a.name), EntrySlot(results[j]))
       /\ \E k \in DOMAIN results : k # j /\ HasVet(results[k].assigned)

VeteranNames ==
  {staff_by_name[k]["_name"] : k \in {m \in DOMAIN staff_by_name :
                                        staff_by_name[m]["_veteran"]}}

loadBalanceBonus(n) == Max(0, 4 - staff_load[n])

combinedScore(n, course_row, names) ==
  _score_candidate(RowOfName(n), course_row, names) + loadBalanceBonus(n)

\* the place of a name in the staff input: the first row that carries it
InputPos(n) == CHOOSE k \in InputNamed(n) : \A m \in InputNamed(n) : k <= m

StaffNames == {staff_by_name[k]["_name"] : k \in DOMAIN staff_by_name}

\* the candidates of a slot that are left when the picks before the i-th are
\* taken out
Remaining(slot, picks, i) ==
  {n \in StaffNames :
     /\ Available(RowOfName(n), slot)
     /\ n \notin placed_overall
     /\ \A m \in 1..(i - 1) : picks[m].name # n}

Min(a, b) == IF a <= b THEN a ELSE b

\* C14: in every step of the base assignment, each pick of the loop is a
\* remaining candidate, no remaining candidate has a larger combined score
\* (candidate score against the names picked so far, plus the load-balance
\* bonus), and no remaining candidate with the same combined score comes
\* earlier in the staff input.
C14_PickIsMaximalEarliest ==
  [][(pc = "step1" /\ idx' = idx + 1) =>
       LET slot == sessions[idx].slot
           course_row == sessions[idx].row
           picks == results'[IndexOfKey(results', SessionKey(slot, course_row))].assigned
       IN  \A i \in 1..Min(TeamSize, Len(picks)) :
             LET rem == Remaining(slot, picks, i)
                 names == {picks[m].name : m \in 1..(i - 1)}
                 cs(n) == combinedScore(n, course_row, names)
                 p == picks[i].name
             IN  /\ p \in rem
                 /\ \A n \in rem :
                      /\ cs(n) <= cs(p)
                      /\ cs(n) = cs(p) => InputPos(p) <= InputPos(n)]_vars

\* the first session has just had its base assignment (nobody was placed
\* before it): three candidates stood for its first pick, the earliest of them
\* scored lower, and the pick was the earlier of two tied at the maximum
C14_Witness ==
  /\ pc = "step1"
  /\ idx = 2
  /\ LET slot == sessions[1].slot
         course_row == sessions[1].row
         picks == results[IndexOfKey(results, SessionKey(slot, course_row))].assigned
         cand == {n \in StaffNames : Available(RowOfName(n), slot)}
         sc(n) == _score_candidate(RowOfName(n), course_row, {})
     IN  /\ picks # << >>
         /\ \E n \in cand : InputPos(n) < InputPos(picks[1].name)
         /\ \E n \in cand :
              /\ n # picks[1].name
              /\ sc(n) = sc(picks[1].name)
              /\ InputPos(picks[1].name) < InputPos(n)

\* the staff still free for a slot: available for it and not yet placed
AvailableCount(slot) == Card(Remaining(slot, << >>, 1))

\* session m should be visited before session k: it requires more staff, or
\* as many with fewer staff available for its slot
GoesBefore(m, k) ==
  \/ requiredCount(sessions[m].row) > requiredCount(sessions[k].row)
  \/ /\ requiredCount(sessions[m].row) = requiredCount(sessions[k].row)
     /\ AvailableCount(sessions[m].slot) < AvailableCount(sessions[k].slot)

\* C15: the session the base assignment visits next is one that no session
\* still to be visited should go before: none of those requires more staff,
\* and none requires as many with fewer staff available for its slot.
C15_VisitedInPriorityOrder ==
  [][(pc = "step1" /\ idx' = idx + 1) =>
       \A m \in (idx + 1)..Len(sessions) : ~GoesBefore(m, idx)]_vars

\* the partner preferences of a placed name, in declared order
PartnerList(n) ==
  << _normalize_name(Get(RowOfName(n), "Partner Preference 1:", "")),
     _normalize_name(Get(RowOfName(n), "Partner Preference 2:", "")),
     _normalize_name(Get(RowOfName(n), "Partner Preference 3:", "")) >>

\* C16: in every step of the base assignment that places two, when the first
\* one placed names a partner who is a remaining candidate of the slot, the
\* second one placed is the first such partner of the list.
C16_PartnerPull ==
  [][(pc = "step1" /\ idx' = idx + 1) =>
       LET slot == sessions[idx].slot
           course_row == sessions[idx].row
           picks == results'[IndexOfKey(results', SessionKey(slot, course_row))].assigned
           rem == Remaining(slot, picks, 2)
           partners == IF picks = << >> THEN << >> ELSE PartnerList(picks[1].name)
           hits == {k \in DOMAIN partners : partners[k] \in rem}
       IN  (Len(picks) >= TeamSize /\ hits # {}) =>
             picks[2].name = partners[CHOOSE k \in hits : \A m \in hits : k <= m]]_vars

Scored == scoring.called

ChoiceMatches(choice, course) ==
  /\ Lower(Strip(course)) # ""
  /\ Lower(Strip(choice)) = Lower(Strip(course))

\* the names of the session that the staff record names as a partner
PartnersPresent(staff, names) ==
  {n \in names :
     \E k \in {"Partner Preference 1:", "Partner Preference 2:",
               "Partner Preference 3:"} : Strip(staff[k]) = n}

Points(b, n) == IF b THEN n ELSE 0

\* C17: the score a call returns is 6 for a first choice that is the course,
\* plus 3 for a second choice that is, plus 4 for each distinct partner name
\* in the session, plus 2 for a veteran; it is 0 when none of these applies,
\* an empty course earns nothing for either choice, and a record with empty
\* partner preferences earns nothing for partners.
C17_ScoreFormula ==
  Scored =>
    LET staff == scoring.staff
        course == scoring.course_row["Course"]
        names == scoring.already_in_session_names
        first == ChoiceMatches(staff["1st Choice"], course)
        second == ChoiceMatches(staff["2nd Choice"], course)
        partners == Card(PartnersPresent(staff, names))
        veteran == _truthy(staff["Veteran?"])
    IN  /\ scoring.score = Points(first, 6) + Points(second, 3) + 4 * partners
                           + Points(veteran, 2)
        /\ (~first /\ ~second /\ partners = 0 /\ ~veteran) => scoring.score = 0
        /\ Strip(course) = "" =>
             scoring.score = 4 * partners + Points(veteran, 2)
        /\ (\A k \in {"Partner Preference 1:", "Partner Preference 2:",
                      "Partner Preference 3:"} : Strip(staff[k]) = "") =>
             scoring.score = Points(first, 6) + Points(second, 3)
                             + Points(veteran, 2)

\* a call has returned for a veteran whose two choices are both the course
\* and who names two of the session
C17_Witness ==
  /\ Scored
  /\ ChoiceMatches(scoring.staff["1st Choice"], scoring.course_row["Course"])
  /\ ChoiceMatches(scoring.staff["2nd Choice"], scoring.course_row["Course"])
  /\ Card(PartnersPresent(scoring.staff, scoring.already_in_session_names)) = 2
  /\ _truthy(scoring.staff["Veteran?"])
  /\ scoring.score = 19

====
